---- MODULE Spec2Model ----
(***************************************************************************)
(* TestbedManager of pyats.contrib (creators/libs/testbed_manager.py):     *)
(* bulk connect, cdp/lldp enable and revert, neighbor and interface        *)
(* address collection over the devices of a testbed.                       *)
(*                                                                         *)
(* The testbed (device names, os tags, connection paths, interfaces) is a  *)
(* fixed inventory; the manager's fields, the devices' mutable state and   *)
(* the outcome of every Device Operations call vary.  Device Operations    *)
(* (connect, destroy, the device api) are external: each call either returns *)
(* or raises, chosen nondeterministically, and is recorded in apiLog.      *)
(***************************************************************************)
EXTENDS Integers, Sequences, FiniteSets, TLC

\* ------------------------------------------------------------------ bounds
MaxLimit == 2
MaxCalls == 2

\* ------------------------------------------------------------ the testbed
Devices == {"A", "B", "C"}

\* iteration order of testbed.devices.items()
DevOrder == <<"A", "B", "C">>

os == [d \in Devices |->
         CASE d = "A" -> "iosxe"
           [] d = "B" -> "nxos"
           [] d = "C" -> "linux"]

\* device.connections, in declared order
connections == [d \in Devices |->
         CASE d = "A" -> << [name |-> "mgmt",    protocol |-> "ssh"],
                            [name |-> "console", protocol |-> "telnet"],
                            [name |-> "oob",     protocol |-> "ssh"] >>
           [] d = "B" -> << [name |-> "mgmt",    protocol |-> "ssh"] >>
           [] d = "C" -> << [name |-> "mgmt",    protocol |-> "ssh"] >>]

\* device.interfaces, in iteration order
interfaces == [d \in Devices |->
         CASE d = "A" -> <<"Gi1", "Gi2">>
           [] d = "B" -> <<"Eth1">>
           [] d = "C" -> <<"eth0">>]

\* default of the constructor's supported_os argument
supported_os == {"nxos", "iosxe", "iosxr", "ios"}

Protocols == {"cdp", "lldp"}

NoAlias == "-"
\* interface.ipv4 not set
None == [ip |-> "None", prefixlen |-> 0]

\* alias_dict values the constructor is given: device -> preferred path name
AliasChoices == { [d \in Devices |-> NoAlias],
                  [d \in Devices |-> IF d = "A" THEN "console" ELSE NoAlias],
                  [d \in Devices |-> IF d = "A" THEN "aux" ELSE NoAlias] }

Timeouts == {10, 30}

\* outcome of one connect attempt: it returns, it raises and the destroy
\* that follows returns, or it raises and the destroy raises as well
Outcomes == {"ok", "fail", "fail_destroy_raises"}

VARIABLES
    config, ssh_only, alias_dict, timeout,                \* constructor arguments
    cdp_configured, lldp_configured, visited_devices,     \* the manager's sets
    connected,        \* device_obj.connected
    enabled,          \* per protocol, the devices on which it is enabled
    ipv4,             \* interface.ipv4, per device and interface
    op,               \* the manager call in progress, "idle" when none
    limit,            \* connect_all_devices' argument
    idx,              \* connect_all_devices: position of the submit loop
    queue,            \* executor: submitted, not yet started
    running,          \* executor: _connect_one_device invocations in flight
    selection,        \* device_to_configure of the configure_testbed call
    pending,          \* pcall: children not yet run
    apiLog,           \* per device, the Device Operations calls of the current call
    raised,           \* whether the last call ended by raising to its caller
    prevCall,         \* name of the last manager call that returned
    prevArg,          \* its device argument, "-" if none
    result,           \* return value of the last get_neighbor_info
    enableOk,         \* per protocol, devices with a verify False + enable success
    initEnabled,      \* enabled as it was before the run
    connectedAtCall,  \* devices connected when the last connect_all_devices began
    ncalls,           \* number of manager calls so far
    yaml,             \* get_credentials_and_proxies' argument
    credential_dict,  \* the credential dict it returns
    proxy_list        \* the proxy list it returns

cfgVars  == <<config, ssh_only, alias_dict, timeout>>
setVars  == <<cdp_configured, lldp_configured>>
devVars  == <<connected, enabled, ipv4>>
execVars == <<limit, idx, queue, running>>
pcVars   == <<selection, pending>>
credVars == <<yaml, credential_dict, proxy_list>>
vars == <<cfgVars, setVars, visited_devices, devVars, op, execVars, pcVars,
          apiLog, raised, prevCall, prevArg, result, enableOk, initEnabled,
          connectedAtCall, ncalls, credVars>>

EmptyLog == [d \in Devices |-> <<>>]

\* no get_neighbor_info has returned since the last other call
NoResult == [name |-> "-", cdp |-> "-", lldp |-> "-"]

\* one Device Operations call as recorded: what was called, on which device,
\* with which path / timeout (connect only), and whether it returned
Call(kind, d, via, tmo, ok) ==
    [kind |-> kind, dev |-> d, via |-> via, timeout |-> tmo, ok |-> ok, ret |-> "-"]

\* a device api call: whether it returned, and the value it returned
ApiCall(kind, d, ok, ret) ==
    [kind |-> kind, dev |-> d, via |-> "-", timeout |-> 0, ok |-> ok, ret |-> ret]

\* the calls of a log that have one of the given kinds
RECURSIVE KindsIn(_)
KindsIn(log) ==
    IF log = <<>> THEN {} ELSE {Head(log).kind} \cup KindsIn(Tail(log))

Entries(log) == { log[i] : i \in 1..Len(log) }

PathNames(d) == { connections[d][i].name : i \in 1..Len(connections[d]) }

Ifaces == UNION { { <<d, interfaces[d][i]>> : i \in 1..Len(interfaces[d]) } : d \in Devices }

\* ------------------------------------------------------ _connect_one_device
\* connection_timeout of the preferred-path attempt
AliasConnectionTimeout == 10

\* the filter left out: every declared path is tried
PathAllowedAny(p) == TRUE

\* the filter of the fallback enumeration
PathAllowed(p) == ~ssh_only \/ (ssh_only /\ p.protocol = "ssh")

\* the preferred path is tried when the device has an alias and the alias
\* names one of its connections
HasPreferredPath(d) == alias_dict[d] # NoAlias /\ alias_dict[d] \in PathNames(d)

\* timeout handed to connect by the fallback enumeration
FallbackTimeout == timeout

\* the enumeration with a second try of the last path when it fails
RECURSIVE FallbackLoopRetryLast(_, _, _, _, _)
FallbackLoopRetryLast(d, i, k, out, log) ==
    IF i > Len(connections[d])
    THEN [conn |-> FALSE, log |-> log, raised |-> FALSE]
    ELSE LET p == connections[d][i] IN
         IF PathAllowed(p)
         THEN LET att == Call("connect", d, p.name, FallbackTimeout, out[k] = "ok") IN
              CASE out[k] = "ok" ->
                     [conn |-> TRUE, log |-> Append(log, att), raised |-> FALSE]
                [] out[k] = "fail" ->
                     FallbackLoopRetryLast(d,
                         IF i = Len(connections[d]) /\ k < Len(connections[d]) + 1
                         THEN i ELSE i + 1,
                         k + 1, out,
                         log \o <<att, Call("destroy", d, "-", 0, TRUE)>>)
                [] OTHER ->
                     [conn |-> FALSE,
                      log |-> log \o <<att, Call("destroy", d, "-", 0, FALSE)>>,
                      raised |-> TRUE]
         ELSE FallbackLoopRetryLast(d, i + 1, k, out, log)

\* The fallback enumeration from path i on; out[k] is the outcome of the next
\* attempt.  A successful attempt breaks the loop; a failed one is followed by
\* destroy, and a destroy that raises ends the invocation.
RECURSIVE FallbackLoop(_, _, _, _, _)
FallbackLoop(d, i, k, out, log) ==
    IF i > Len(connections[d])
    THEN [conn |-> FALSE, log |-> log, raised |-> FALSE]
    ELSE LET p == connections[d][i] IN
         IF PathAllowed(p)
         THEN LET att == Call("connect", d, p.name, FallbackTimeout, out[k] = "ok") IN
              CASE out[k] = "ok" ->
                     [conn |-> TRUE, log |-> Append(log, att), raised |-> FALSE]
                [] out[k] = "fail" ->
                     FallbackLoop(d, i + 1, k + 1, out,
                                  log \o <<att, Call("destroy", d, "-", 0, TRUE)>>)
                [] OTHER ->
                     [conn |-> FALSE,
                      log |-> log \o <<att, Call("destroy", d, "-", 0, FALSE)>>,
                      raised |-> TRUE]
         ELSE FallbackLoop(d, i + 1, k, out, log)

\* The preferred-path attempt; k is the index of the next unused outcome.
PreferredAttempt(d, out) ==
    IF HasPreferredPath(d)
    THEN LET att == Call("connect", d, alias_dict[d], AliasConnectionTimeout,
                         out[1] = "ok") IN
         CASE out[1] = "ok" ->
                [conn |-> TRUE, log |-> <<att>>, raised |-> FALSE, k |-> 2]
           [] out[1] = "fail" ->
                [conn |-> FALSE, log |-> <<att, Call("destroy", d, "-", 0, TRUE)>>,
                 raised |-> FALSE, k |-> 2]
           [] OTHER ->
                [conn |-> FALSE, log |-> <<att, Call("destroy", d, "-", 0, FALSE)>>,
                 raised |-> TRUE, k |-> 2]
    ELSE [conn |-> connected[d], log |-> <<>>, raised |-> FALSE, k |-> 1]

\* the invocation without the "if connected: return" between the preferred
\* attempt and the enumeration
ConnectOneDeviceNoReturn(d, out) ==
    LET pre == PreferredAttempt(d, out) IN
    IF pre.raised
    THEN [conn |-> pre.conn, log |-> pre.log, raised |-> pre.raised]
    ELSE LET r == FallbackLoop(d, 1, pre.k, out, pre.log) IN
         [conn |-> pre.conn \/ r.conn, log |-> r.log, raised |-> r.raised]

\* One invocation for device d with attempt outcomes out: the device's final
\* connected flag, the calls issued, and whether the invocation raised.
ConnectOneDevice(d, out) ==
    LET pre == PreferredAttempt(d, out) IN
    IF pre.raised \/ pre.conn
    THEN [conn |-> pre.conn, log |-> pre.log, raised |-> pre.raised]
    ELSE FallbackLoop(d, 1, pre.k, out, pre.log)

\* ------------------------------------------------------ connect_all_devices
\* the skip test without its connected clause
ConnectSelectedIgnoringConnected(d) ==
    ~(os[d] \notin supported_os \/ d \in visited_devices)

\* the skip test without its visited clause
ConnectSelectedIgnoringVisited(d) ==
    ~(connected[d] \/ os[d] \notin supported_os)

\* the devices the submit loop does not skip
ConnectSelected(d) ==
    ~(connected[d] \/ os[d] \notin supported_os \/ d \in visited_devices)

\* a pool with one worker per device of the testbed
MaxWorkersUnbounded == Cardinality(Devices)

\* max_workers of the ThreadPoolExecutor
MaxWorkers == limit

connect_all_devices(n) ==
    /\ op = "idle"
    /\ ncalls < MaxCalls
    /\ op' = "connect_all_devices"
    /\ limit' = n
    /\ idx' = 1
    /\ queue' = <<>>
    /\ running' = {}
    /\ apiLog' = EmptyLog
    /\ raised' = FALSE
    /\ ncalls' = ncalls + 1
    /\ result' = NoResult
    /\ connectedAtCall' = { d \in Devices : connected[d] }
    /\ UNCHANGED <<credVars, cfgVars, setVars, visited_devices, devVars, pcVars,
                   prevCall, prevArg, enableOk, initEnabled>>

\* one iteration of the loop over testbed.devices.items()
Submit ==
    /\ op = "connect_all_devices"
    /\ idx <= Len(DevOrder)
    /\ idx' = idx + 1
    /\ queue' = IF ConnectSelected(DevOrder[idx])
                THEN Append(queue, DevOrder[idx]) ELSE queue
    /\ UNCHANGED <<credVars, cfgVars, setVars, visited_devices, devVars, op, limit, running,
                   pcVars, apiLog, raised, prevCall, prevArg, result, enableOk,
                   initEnabled, connectedAtCall, ncalls>>

\* a worker thread of the pool takes the next submitted device
WorkerStart ==
    /\ op = "connect_all_devices"
    /\ queue # <<>>
    /\ Cardinality(running) < MaxWorkers
    /\ running' = running \cup {Head(queue)}
    /\ queue' = Tail(queue)
    /\ UNCHANGED <<credVars, cfgVars, setVars, visited_devices, devVars, op, limit, idx,
                   pcVars, apiLog, raised, prevCall, prevArg, result, enableOk,
                   initEnabled, connectedAtCall, ncalls>>

\* _connect_one_device(d) runs in its worker; what it raises stays in the
\* future nobody reads
WorkerFinish(d) ==
    /\ op = "connect_all_devices"
    /\ d \in running
    /\ \E out \in [1..(Len(connections[d]) + 1) -> Outcomes] :
         LET r == ConnectOneDevice(d, out) IN
         /\ connected' = [connected EXCEPT ![d] = r.conn]
         /\ apiLog' = [apiLog EXCEPT ![d] = r.log]
    /\ running' = running \ {d}
    /\ UNCHANGED <<credVars, cfgVars, setVars, visited_devices, enabled, ipv4, op, limit, idx,
                   queue, pcVars, raised, prevCall, prevArg, result, enableOk,
                   initEnabled, connectedAtCall, ncalls>>

\* the pool shut down without waiting for its workers
ConnectAllReturnNoJoin ==
    /\ op = "connect_all_devices"
    /\ idx > Len(DevOrder)
    /\ op' = "idle"
    /\ prevCall' = "connect_all_devices"
    /\ prevArg' = "-"
    /\ UNCHANGED <<credVars, cfgVars, setVars, visited_devices, devVars, execVars, pcVars,
                   apiLog, raised, result, enableOk, initEnabled, connectedAtCall, ncalls>>

\* leaving the with block joins the pool
ConnectAllReturn ==
    /\ op = "connect_all_devices"
    /\ idx > Len(DevOrder)
    /\ queue = <<>>
    /\ running = {}
    /\ op' = "idle"
    /\ prevCall' = "connect_all_devices"
    /\ prevArg' = "-"
    /\ UNCHANGED <<credVars, cfgVars, setVars, visited_devices, devVars, execVars, pcVars,
                   apiLog, raised, result, enableOk, initEnabled, connectedAtCall, ncalls>>

\* ------------------------------------- configure_testbed_{cdp,lldp}_protocol
Configured(p) == IF p = "cdp" THEN cdp_configured ELSE lldp_configured

CfgTestbedName(p) == IF p = "cdp" THEN "configure_testbed_cdp_protocol"
                                  ELSE "configure_testbed_lldp_protocol"

CfgDeviceName(p) == IF p = "cdp" THEN "configure_device_cdp_protocol"
                                 ELSE "configure_device_lldp_protocol"

\* the selection test without its cdp_configured clause
CdpSelectedIgnoringConfigured(d) ==
    ~(d \in visited_devices \/ ~connected[d])

\* the devices the selection loop appends to device_to_configure
CdpSelected(d) ==
    ~(d \in visited_devices \/ d \in cdp_configured \/ ~connected[d])

LldpSelected(d) ==
    ~(d \in visited_devices \/ d \in lldp_configured \/ ~connected[d])

DeviceToConfigure(p) ==
    { d \in Devices : IF p = "cdp" THEN CdpSelected(d) ELSE LldpSelected(d) }

\* the method with the add moved out of the try block: the name is added
\* whether or not the enable call returned
ConfigureDeviceProtocolMarksOnFailure(p, d, v, e) ==
    IF v = "raise"
    THEN [add |-> FALSE, raised |-> TRUE,
          log |-> <<ApiCall("verify_" \o p, d, FALSE, "-")>>]
    ELSE IF d \notin enabled[p]
    THEN [add |-> TRUE, raised |-> FALSE,
          log |-> <<ApiCall("verify_" \o p, d, TRUE, "False"),
                    ApiCall("configure_" \o p, d, e = "ok", "-")>>]
    ELSE [add |-> FALSE, raised |-> FALSE,
          log |-> <<ApiCall("verify_" \o p, d, TRUE, "True")>>]

\* The body of configure_device_{cdp,lldp}_protocol for device d.  v is the
\* outcome of the verify probe ("ret": it returns the device's state, "raise"),
\* e the outcome of the enable call ("ok", "raise").  add: the name is added to
\* the configured set; raised: the method raises to its caller.
ConfigureDeviceProtocol(p, d, v, e) ==
    IF v = "raise"
    THEN [add |-> FALSE, raised |-> TRUE,
          log |-> <<ApiCall("verify_" \o p, d, FALSE, "-")>>]
    ELSE IF d \notin enabled[p]
    THEN IF e = "ok"
         THEN [add |-> TRUE, raised |-> FALSE,
               log |-> <<ApiCall("verify_" \o p, d, TRUE, "False"),
                         ApiCall("configure_" \o p, d, TRUE, "-")>>]
         ELSE [add |-> FALSE, raised |-> FALSE,
               log |-> <<ApiCall("verify_" \o p, d, TRUE, "False"),
                         ApiCall("configure_" \o p, d, FALSE, "-")>>]
    ELSE [add |-> FALSE, raised |-> FALSE,
          log |-> <<ApiCall("verify_" \o p, d, TRUE, "True")>>]

\* effect of one configure_device invocation on the sets, the device and the
\* record of what the Device Operations calls returned
ConfigureEffect(p, d, r, base) ==
    LET done == ApiCall("configure_" \o p, d, TRUE, "-") \in Entries(r.log)
        sawOff == ApiCall("verify_" \o p, d, TRUE, "False") \in Entries(r.log)
    IN
    /\ cdp_configured' = IF p = "cdp" /\ r.add THEN cdp_configured \cup {d}
                                              ELSE cdp_configured
    /\ lldp_configured' = IF p = "lldp" /\ r.add THEN lldp_configured \cup {d}
                                                ELSE lldp_configured
    /\ enabled' = IF done THEN [enabled EXCEPT ![p] = @ \cup {d}] ELSE enabled
    /\ enableOk' = IF done /\ sawOff THEN [enableOk EXCEPT ![p] = @ \cup {d}]
                                     ELSE enableOk
    /\ apiLog' = [base EXCEPT ![d] = @ \o r.log]

configure_testbed_protocol(p) ==
    /\ op = "idle"
    /\ ncalls < MaxCalls
    /\ ncalls' = ncalls + 1
    /\ apiLog' = EmptyLog
    /\ raised' = FALSE
    /\ selection' = DeviceToConfigure(p)
    /\ pending' = DeviceToConfigure(p)
    /\ IF DeviceToConfigure(p) = {}
       THEN /\ op' = "idle"
            /\ prevCall' = CfgTestbedName(p)
            /\ prevArg' = "-"
       ELSE /\ op' = CfgTestbedName(p)
            /\ UNCHANGED <<prevCall, prevArg>>
    /\ result' = NoResult
    /\ UNCHANGED <<credVars, cfgVars, setVars, visited_devices, devVars, execVars,
                   enableOk, initEnabled, connectedAtCall>>

\* pcall runs configure_device_*_protocol once per selected device
PcallChild(p, d) ==
    /\ op = CfgTestbedName(p)
    /\ d \in pending
    /\ \E v \in {"ret", "raise"}, e \in {"ok", "raise"} :
         LET r == ConfigureDeviceProtocol(p, d, v, e) IN
         /\ ConfigureEffect(p, d, r, apiLog)
         /\ raised' = (raised \/ r.raised)
    /\ pending' = pending \ {d}
    /\ UNCHANGED <<credVars, cfgVars, visited_devices, connected, ipv4, op, execVars,
                   selection, prevCall, prevArg, result, initEnabled, connectedAtCall, ncalls>>

\* pcall returns once every child is done, and raises if a child raised
PcallReturn(p) ==
    /\ op = CfgTestbedName(p)
    /\ pending = {}
    /\ op' = "idle"
    /\ prevCall' = CfgTestbedName(p)
    /\ prevArg' = "-"
    /\ UNCHANGED <<credVars, cfgVars, setVars, visited_devices, devVars, execVars, pcVars,
                   apiLog, raised, result, enableOk, initEnabled, connectedAtCall, ncalls>>

\* configure_device_*_protocol called on one device by the caller itself
configure_device_protocol(p, d) ==
    /\ op = "idle"
    /\ ncalls < MaxCalls
    /\ ncalls' = ncalls + 1
    /\ \E v \in {"ret", "raise"}, e \in {"ok", "raise"} :
         LET r == ConfigureDeviceProtocol(p, d, v, e) IN
         /\ ConfigureEffect(p, d, r, EmptyLog)
         /\ raised' = r.raised
    /\ prevCall' = CfgDeviceName(p)
    /\ prevArg' = d
    /\ result' = NoResult
    /\ UNCHANGED <<credVars, cfgVars, visited_devices, connected, ipv4, op, execVars, pcVars,
                   initEnabled, connectedAtCall>>

\* ------------------------------- unconfigure_neighbor_discovery_protocols
\* the disable calls without the membership tests
UnconfigureCallsUnconditional(d, ec, el) ==
    <<ApiCall("unconfigure_cdp", d, ec = "ok", "-"),
      ApiCall("unconfigure_lldp", d, el = "ok", "-")>>

\* the disable calls issued for device d; ec, el: outcome of each ("ok", "raise")
UnconfigureCalls(d, ec, el) ==
    (IF d \in cdp_configured
     THEN <<ApiCall("unconfigure_cdp", d, ec = "ok", "-")>> ELSE <<>>)
    \o
    (IF d \in lldp_configured
     THEN <<ApiCall("unconfigure_lldp", d, el = "ok", "-")>> ELSE <<>>)

\* the method dropping the name from its set once the disable call succeeded
UnconfigureRemovesName(d) ==
    /\ op = "idle"
    /\ ncalls < MaxCalls
    /\ ncalls' = ncalls + 1
    /\ \E ec \in {"ok", "raise"}, el \in {"ok", "raise"} :
         LET log == UnconfigureCalls(d, ec, el) IN
         /\ apiLog' = [EmptyLog EXCEPT ![d] = log]
         /\ enabled' = [p \in Protocols |->
                          IF ApiCall("unconfigure_" \o p, d, TRUE, "-") \in Entries(log)
                          THEN enabled[p] \ {d} ELSE enabled[p]]
         /\ cdp_configured' =
                IF ApiCall("unconfigure_cdp", d, TRUE, "-") \in Entries(log)
                THEN cdp_configured \ {d} ELSE cdp_configured
         /\ lldp_configured' =
                IF ApiCall("unconfigure_lldp", d, TRUE, "-") \in Entries(log)
                THEN lldp_configured \ {d} ELSE lldp_configured
    /\ raised' = FALSE
    /\ prevCall' = "unconfigure_neighbor_discovery_protocols"
    /\ prevArg' = d
    /\ result' = NoResult
    /\ UNCHANGED <<credVars, cfgVars, visited_devices, connected, ipv4, op, execVars,
                   pcVars, enableOk, initEnabled, connectedAtCall>>

unconfigure_neighbor_discovery_protocols(d) ==
    /\ op = "idle"
    /\ ncalls < MaxCalls
    /\ ncalls' = ncalls + 1
    /\ \E ec \in {"ok", "raise"}, el \in {"ok", "raise"} :
         LET log == UnconfigureCalls(d, ec, el) IN
         /\ apiLog' = [EmptyLog EXCEPT ![d] = log]
         /\ enabled' = [p \in Protocols |->
                          IF ApiCall("unconfigure_" \o p, d, TRUE, "-") \in Entries(log)
                          THEN enabled[p] \ {d} ELSE enabled[p]]
    /\ raised' = FALSE
    /\ prevCall' = "unconfigure_neighbor_discovery_protocols"
    /\ prevArg' = d
    /\ result' = NoResult
    /\ UNCHANGED <<credVars, cfgVars, setVars, visited_devices, connected, ipv4, op, execVars,
                   pcVars, enableOk, initEnabled, connectedAtCall>>

\* ------------------------------------------------------- get_neighbor_info
EmptyDict == "{}"

\* the neighbor table the device reports for a protocol (opaque)
NeighborTable(p, d) == "neighbors_" \o p \o "_" \o d

\* the method without its early return
GetNeighborInfoNoEarlyReturn(d, oc, ol) ==
    [ret |-> [name |-> d,
              cdp  |-> IF oc = "ok" THEN NeighborTable("cdp", d) ELSE EmptyDict,
              lldp |-> IF ol = "ok" THEN NeighborTable("lldp", d) ELSE EmptyDict],
     log |-> <<ApiCall("get_cdp_neighbors_info", d, oc = "ok", "-"),
               ApiCall("get_lldp_neighbors_info", d, ol = "ok", "-")>>]

\* the method with both fetches in one try block: a cdp failure skips the
\* lldp fetch
GetNeighborInfoOneTry(d, oc, ol) ==
    IF os[d] \notin supported_os \/ ~connected[d]
    THEN [ret |-> [name |-> d, cdp |-> EmptyDict, lldp |-> EmptyDict], log |-> <<>>]
    ELSE IF oc = "ok"
    THEN [ret |-> [name |-> d,
                   cdp  |-> NeighborTable("cdp", d),
                   lldp |-> IF ol = "ok" THEN NeighborTable("lldp", d) ELSE EmptyDict],
          log |-> <<ApiCall("get_cdp_neighbors_info", d, TRUE, "-"),
                    ApiCall("get_lldp_neighbors_info", d, ol = "ok", "-")>>]
    ELSE [ret |-> [name |-> d, cdp |-> EmptyDict, lldp |-> EmptyDict],
          log |-> <<ApiCall("get_cdp_neighbors_info", d, FALSE, "-")>>]

\* oc, ol: outcome of the cdp and of the lldp fetch ("ok", "raise")
GetNeighborInfo(d, oc, ol) ==
    IF os[d] \notin supported_os \/ ~connected[d]
    THEN [ret |-> [name |-> d, cdp |-> EmptyDict, lldp |-> EmptyDict], log |-> <<>>]
    ELSE [ret |-> [name |-> d,
                   cdp  |-> IF oc = "ok" THEN NeighborTable("cdp", d) ELSE EmptyDict,
                   lldp |-> IF ol = "ok" THEN NeighborTable("lldp", d) ELSE EmptyDict],
          log |-> <<ApiCall("get_cdp_neighbors_info", d, oc = "ok", "-"),
                    ApiCall("get_lldp_neighbors_info", d, ol = "ok", "-")>>]

get_neighbor_info(d) ==
    /\ op = "idle"
    /\ ncalls < MaxCalls
    /\ ncalls' = ncalls + 1
    /\ \E oc \in {"ok", "raise"}, ol \in {"ok", "raise"} :
         LET r == GetNeighborInfo(d, oc, ol) IN
         /\ result' = r.ret
         /\ apiLog' = [EmptyLog EXCEPT ![d] = r.log]
    /\ raised' = FALSE
    /\ prevCall' = "get_neighbor_info"
    /\ prevArg' = d
    /\ UNCHANGED <<credVars, cfgVars, setVars, visited_devices, devVars, op, execVars, pcVars,
                   enableOk, initEnabled, connectedAtCall>>

\* --------------------------------------------- get_interfaces_ipV4_address
Addrs == {"10.0.0.1", "10.0.0.2"}

\* what get_interface_ipv4_address may return: nothing, or a text cut into
\* address, separator and prefix length
AddrTexts == { <<>>, <<"10.0.0.1", "/", "24">>, <<"10.0.0.2">>, <<"bogus">> }

FetchOutcomes == { [raises |-> TRUE, text |-> <<>>] }
                 \cup { [raises |-> FALSE, text |-> t] : t \in AddrTexts }

\* ipaddress.IPv4Interface: address with prefix length, /32 when none is
\* written; anything else is a ValueError
IPv4Interface(t) ==
    IF Len(t) = 1 /\ t[1] \in Addrs
    THEN [valid |-> TRUE, value |-> [ip |-> t[1], prefixlen |-> 32]]
    ELSE IF Len(t) = 3 /\ t[1] \in Addrs /\ t[2] = "/" /\ t[3] \in {"24", "16"}
    THEN [valid |-> TRUE,
          value |-> [ip |-> t[1], prefixlen |-> IF t[3] = "24" THEN 24 ELSE 16]]
    ELSE [valid |-> FALSE, value |-> None]

FetchCall(d, n, o) ==
    [kind |-> "get_interface_ipv4_address", dev |-> d, via |-> n, timeout |-> 0,
     ok |-> ~o.raises, ret |-> "-"]

\* the loop without its "ipv4 is None" test
NeedsAddressAlways(cur, d, n) == TRUE

\* whether the loop fetches the address of an interface
NeedsAddress(cur, d, n) == cur[<<d, n>>] = None

\* the loop over device.interfaces.values() from interface i on; outs[i] is
\* the outcome of the fetch for interface i
RECURSIVE InterfaceLoop(_, _, _, _, _)
InterfaceLoop(d, i, outs, cur, log) ==
    IF i > Len(interfaces[d])
    THEN [ipv4 |-> cur, log |-> log, raised |-> FALSE]
    ELSE LET n == interfaces[d][i]
             lg == Append(log, FetchCall(d, n, outs[i]))
         IN
         IF NeedsAddress(cur, d, n)
         THEN IF outs[i].raises
              THEN [ipv4 |-> cur, log |-> lg, raised |-> TRUE]
              ELSE IF outs[i].text # <<>>
              THEN IF IPv4Interface(outs[i].text).valid
                   THEN InterfaceLoop(d, i + 1, outs,
                            [cur EXCEPT ![<<d, n>>] = IPv4Interface(outs[i].text).value],
                            lg)
                   ELSE [ipv4 |-> cur, log |-> lg, raised |-> TRUE]
              ELSE InterfaceLoop(d, i + 1, outs, cur, lg)
         ELSE InterfaceLoop(d, i + 1, outs, cur, log)

\* the devices the method does not return early for
InterfacesEligible(d) ==
    ~(~connected[d] \/ os[d] \notin supported_os \/ Len(interfaces[d]) < 1)

GetInterfacesIpV4Address(d, outs) ==
    IF InterfacesEligible(d)
    THEN InterfaceLoop(d, 1, outs, ipv4, <<>>)
    ELSE [ipv4 |-> ipv4, log |-> <<>>, raised |-> FALSE]

get_interfaces_ipV4_address(d) ==
    /\ op = "idle"
    /\ ncalls < MaxCalls
    /\ ncalls' = ncalls + 1
    /\ \E outs \in [1..Len(interfaces[d]) -> FetchOutcomes] :
         LET r == GetInterfacesIpV4Address(d, outs) IN
         /\ ipv4' = r.ipv4
         /\ apiLog' = [EmptyLog EXCEPT ![d] = r.log]
         /\ raised' = r.raised
    /\ prevCall' = "get_interfaces_ipV4_address"
    /\ prevArg' = d
    /\ result' = NoResult
    /\ UNCHANGED <<credVars, cfgVars, setVars, visited_devices, connected, enabled, op,
                   execVars, pcVars, enableOk, initEnabled, connectedAtCall>>

\* ---------------------------------------------------------- visited_devices
MaxVisited == 1

\* the owner of the manager marks a device as visited between two calls
AddVisited(d) ==
    /\ op = "idle"
    /\ d \notin visited_devices
    /\ Cardinality(visited_devices) < MaxVisited
    /\ visited_devices' = visited_devices \cup {d}
    /\ prevCall' = "-"
    /\ prevArg' = "-"
    /\ UNCHANGED <<credVars, cfgVars, setVars, devVars, op, execVars, pcVars, apiLog, raised,
                   result, enableOk, initEnabled, connectedAtCall, ncalls>>

\* ------------------------------------------------------------ specification
\* interface addresses the testbed file already gives
PresetIpv4 == [i \in Ifaces |->
                 IF i = <<"A", "Gi2">> THEN [ip |-> "10.0.0.9", prefixlen |-> 24]
                                      ELSE None]

\* what __init__ and the idle executor leave, whatever the arguments
InitState ==
    /\ cdp_configured = {}
    /\ lldp_configured = {}
    /\ visited_devices = {}
    /\ ipv4 = PresetIpv4
    /\ op = "idle"
    /\ limit = 1
    /\ idx = 1
    /\ queue = <<>>
    /\ running = {}
    /\ selection = {}
    /\ pending = {}
    /\ apiLog = EmptyLog
    /\ raised = FALSE
    /\ prevCall = "-"
    /\ prevArg = "-"
    /\ result = NoResult
    /\ enableOk = [p \in Protocols |-> {}]
    /\ initEnabled = enabled
    /\ connectedAtCall = {}
    /\ ncalls = 0
    /\ credential_dict = <<>>
    /\ proxy_list = <<>>

\* the constructor's default arguments
DefaultArguments ==
    /\ config = FALSE
    /\ ssh_only = FALSE
    /\ alias_dict = [d \in Devices |-> NoAlias]
    /\ timeout = 10

ConnectActions ==
    \/ \E n \in 1..MaxLimit : connect_all_devices(n)
    \/ Submit
    \/ WorkerStart
    \/ \E d \in Devices : WorkerFinish(d)
    \/ ConnectAllReturn

ProtocolActions ==
    \/ \E p \in Protocols : configure_testbed_protocol(p)
    \/ \E p \in Protocols, d \in Devices : PcallChild(p, d)
    \/ \E p \in Protocols : PcallReturn(p)
    \/ \E p \in Protocols, d \in Devices : configure_device_protocol(p, d)
    \/ \E d \in Devices : unconfigure_neighbor_discovery_protocols(d)

CollectActions ==
    \/ \E d \in Devices : get_neighbor_info(d)
    \/ \E d \in Devices : get_interfaces_ipV4_address(d)

\* no testbed file read yet
NoYaml == <<>>

\* connection states the testbed is handed over in: no session yet, or
\* sessions opened beforehand on some devices
ConnectedChoices == { [d \in Devices |-> FALSE],
                      [d \in Devices |-> TRUE],
                      [d \in Devices |-> d # "B"] }

\* protocol states of the devices before the run
EnabledChoices == { [p \in Protocols |-> {}],
                    [p \in Protocols |-> IF p = "cdp" THEN {"A"} ELSE {}],
                    [p \in Protocols |-> IF p = "cdp" THEN {"B", "C"} ELSE {"A"}] }

\* The whole manager, constructed with its default arguments.
Init ==
    /\ DefaultArguments
    /\ connected \in { c \in ConnectedChoices : ~c["B"] }
    /\ enabled = [p \in Protocols |-> IF p = "cdp" THEN {"B"} ELSE {}]
    /\ yaml = NoYaml
    /\ InitState

Next ==
    \/ ConnectActions
    \/ ProtocolActions
    \/ CollectActions
    \/ \E d \in Devices : AddVisited(d)

Spec == Init /\ [][Next]_vars

\* Connecting, under every choice of ssh_only, alias_dict and timeout.
InitConnect ==
    /\ config = FALSE
    /\ ssh_only \in BOOLEAN
    /\ alias_dict \in AliasChoices
    /\ timeout \in Timeouts
    /\ connected \in [Devices -> BOOLEAN]
    /\ enabled = [p \in Protocols |-> {}]
    /\ yaml = NoYaml
    /\ InitState

NextConnect ==
    \/ ConnectActions
    \/ \E d \in Devices : AddVisited(d)

SpecConnect == InitConnect /\ [][NextConnect]_vars

\* Enabling and reverting cdp and lldp, from every protocol state of the devices.
InitProtocol ==
    /\ config \in BOOLEAN
    /\ ssh_only = FALSE
    /\ alias_dict = [d \in Devices |-> NoAlias]
    /\ timeout = 10
    /\ connected \in ConnectedChoices
    /\ enabled \in EnabledChoices
    /\ yaml = NoYaml
    /\ InitState

NextProtocol ==
    \/ ProtocolActions
    \/ \E d \in Devices : AddVisited(d)

SpecProtocol == InitProtocol /\ [][NextProtocol]_vars

\* Collecting neighbor tables and interface addresses.
InitCollect ==
    /\ DefaultArguments
    /\ connected \in [Devices -> BOOLEAN]
    /\ enabled = [p \in Protocols |-> {}]
    /\ yaml = NoYaml
    /\ InitState

NextCollect ==
    \/ CollectActions
    \/ \E d \in Devices : AddVisited(d)

SpecCollect == InitCollect /\ [][NextCollect]_vars

\* ---------------------------------------------- get_credentials_and_proxies
\* A python dict is a sequence of [key, val] entries with distinct keys, in
\* insertion order.  A credential's content is opaque; two contents are equal
\* exactly when they are the same value.
CredNames == {"default", "default2"}
CredValues == {"v1", "v2", "v3"}
Proxies == {"p1", "p2"}

\* a connection without a proxy key
NoProxy == "-"

Digits == <<"0", "1", "2", "3", "4", "5", "6", "7", "8", "9">>

\* str(n) for a natural number
RECURSIVE Str(_)
Str(n) == IF n < 10 THEN Digits[n + 1]
          ELSE Str(n \div 10) \o Digits[(n % 10) + 1]

\* cred in credential_dict
HasKey(dict, k) == \E i \in 1..Len(dict) : dict[i].key = k

\* credential_dict.values()
Values(dict) == { dict[i].val : i \in 1..Len(dict) }

\* cred + str(len(credential_dict))
NewKey(dict, k) == k \o Str(Len(dict))

\* credential_dict[k] = v: an existing key keeps its place and takes the value
Put(dict, k, v) ==
    IF HasKey(dict, k)
    THEN [i \in 1..Len(dict) |->
             IF dict[i].key = k THEN [key |-> k, val |-> v] ELSE dict[i]]
    ELSE Append(dict, [key |-> k, val |-> v])

\* the body of the loop over one device's credentials
CredStep(dict, k, v) ==
    IF ~HasKey(dict, k) THEN Put(dict, k, v)
    ELSE IF v \notin Values(dict) THEN Put(dict, NewKey(dict, k), v)
    ELSE dict

RECURSIVE CredLoop(_, _, _)
CredLoop(dict, creds, i) ==
    IF i > Len(creds) THEN dict
    ELSE CredLoop(CredStep(dict, creds[i].key, creds[i].val), creds, i + 1)

\* the body of the loop over one device's connections
ProxyStep(list, c) ==
    IF c # NoProxy
    THEN IF \A i \in 1..Len(list) : list[i] # c THEN Append(list, c) ELSE list
    ELSE list

RECURSIVE ProxyLoop(_, _, _)
ProxyLoop(list, conns, i) ==
    IF i > Len(conns) THEN list
    ELSE ProxyLoop(ProxyStep(list, conns[i]), conns, i + 1)

\* the loop over the devices from device i on; acc: both results so far
RECURSIVE DeviceLoop(_, _, _)
DeviceLoop(acc, y, i) ==
    IF i > Len(y) THEN acc
    ELSE DeviceLoop([credential_dict |-> CredLoop(acc.credential_dict,
                                                  y[i].credentials, 1),
                     proxy_list |-> ProxyLoop(acc.proxy_list, y[i].connections, 1)],
                    y, i + 1)

GetCredentialsAndProxies(y) ==
    DeviceLoop([credential_dict |-> <<>>, proxy_list |-> <<>>], y, 1)

get_credentials_and_proxies ==
    /\ op = "idle"
    /\ ncalls < MaxCalls
    /\ ncalls' = ncalls + 1
    /\ LET r == GetCredentialsAndProxies(yaml) IN
         /\ credential_dict' = r.credential_dict
         /\ proxy_list' = r.proxy_list
    /\ apiLog' = EmptyLog
    /\ raised' = FALSE
    /\ prevCall' = "get_credentials_and_proxies"
    /\ prevArg' = "-"
    /\ result' = NoResult
    /\ UNCHANGED <<yaml, cfgVars, setVars, visited_devices, devVars, op, execVars,
                   pcVars, enableOk, initEnabled, connectedAtCall>>

\* the credentials sections a device of the file can have: no credential, one,
\* or both names in either order
CredentialChoices ==
    {<<>>}
    \cup { <<[key |-> k, val |-> v]>> : k \in CredNames, v \in CredValues }
    \cup { c \in { <<[key |-> k1, val |-> v1], [key |-> k2, val |-> v2]>> :
                       k1 \in CredNames, k2 \in CredNames,
                       v1 \in CredValues, v2 \in CredValues } :
              c[1].key # c[2].key }

\* the connections sections: per connection its proxy, or none
ConnectionChoices ==
    { <<NoProxy>>, <<"p1">>, <<"p1", "p1">>, <<"p1", "p2">>, <<"p2", NoProxy>> }

MaxYamlDevices == 2

YamlDevices == [credentials : CredentialChoices, connections : ConnectionChoices]

YamlInputs == UNION { [1..n -> YamlDevices] : n \in 1..MaxYamlDevices }

\* Reading credentials and proxies off a testbed file.  The method uses no
\* attribute of the manager, which stays as constructed.
InitCredentials ==
    /\ DefaultArguments
    /\ connected = [d \in Devices |-> FALSE]
    /\ enabled = [p \in Protocols |-> {}]
    /\ yaml \in YamlInputs
    /\ InitState

NextCredentials == get_credentials_and_proxies

SpecCredentials == InitCredentials /\ [][NextCredentials]_vars

\* ------------------------------------------------------------------ claims
\* the manager call the current apiLog belongs to
CurrentCall == IF op # "idle" THEN op ELSE prevCall

QueueSet == { queue[i] : i \in 1..Len(queue) }

IsConnect(c) == c.kind = "connect"

\* the path names of the connect attempts of a log, in the order issued
RECURSIVE ConnectVias(_)
ConnectVias(log) ==
    IF log = <<>> THEN <<>>
    ELSE IF IsConnect(Head(log)) THEN <<Head(log).via>> \o ConnectVias(Tail(log))
    ELSE ConnectVias(Tail(log))

\* the names of a device's ssh paths from path i on, in declared order
RECURSIVE SshPathsFrom(_, _)
SshPathsFrom(d, i) ==
    IF i > Len(connections[d]) THEN <<>>
    ELSE IF connections[d][i].protocol = "ssh"
         THEN <<connections[d][i].name>> \o SshPathsFrom(d, i + 1)
         ELSE SshPathsFrom(d, i + 1)

IsPrefix(a, b) == Len(a) <= Len(b) /\ \A i \in 1..Len(a) : a[i] = b[i]

\* C1: while connect_all_devices(limit) runs, at most limit invocations of
\* _connect_one_device are in flight.
C1_InFlightBounded ==
    op = "connect_all_devices" => Cardinality(running) <= limit

\* C1 witness: the pool is full and a submitted device waits for a worker.
C1_Witness ==
    /\ op = "connect_all_devices"
    /\ Cardinality(running) = limit
    /\ queue # <<>>

\* C8: connect_all_devices issues no connect and no destroy on a device that
\* was connected when the call began, and no call at all when every
\* supported, unvisited device was connected by then.
C8_ConnectedSkipped ==
    CurrentCall = "connect_all_devices" =>
        /\ \A d \in connectedAtCall : apiLog[d] = <<>> /\ connected[d]
        /\ (\A d \in Devices :
               (os[d] \in supported_os /\ d \notin visited_devices)
                   => d \in connectedAtCall)
           => apiLog = EmptyLog

\* C8 witness: a second call finds A, which has a preferred path, connected and
\* skips it while it attempts B again.
C8_Witness ==
    /\ op = "connect_all_devices"
    /\ ncalls = 2
    /\ idx > Len(DevOrder)
    /\ "A" \in connectedAtCall
    /\ HasPreferredPath("A")
    /\ apiLog["B"] # <<>>

\* C9: with ssh_only set, a device without preferred path gets its ssh paths
\* attempted in declared order and no other path; a device of unsupported os
\* gets no attempt.
C9_SshOnlyDeclaredOrder ==
    (CurrentCall = "connect_all_devices" /\ ssh_only) =>
        \A d \in Devices :
            /\ alias_dict[d] = NoAlias =>
                   IsPrefix(ConnectVias(apiLog[d]), SshPathsFrom(d, 1))
            /\ os[d] \notin supported_os => apiLog[d] = <<>>

\* C9 witness: A's mgmt attempt failed, its telnet console was skipped and its
\* second ssh path was attempted next.
C9_Witness ==
    /\ CurrentCall = "connect_all_devices"
    /\ ssh_only
    /\ alias_dict["A"] = NoAlias
    /\ ConnectVias(apiLog["A"]) = <<"mgmt", "oob">>
    /\ apiLog["C"] = <<>>

\* the calls of one kind in a device's log
CallsOf(kind, d) == { c \in Entries(apiLog[d]) : c.kind = kind }

\* C3: a name is in cdp_configured (lldp_configured) only if some
\* configure_device invocation for that device saw the verify probe return
\* False and the enable call return.
C3_ConfiguredOnlyAfterEnable ==
    \A p \in Protocols : \A d \in Configured(p) : d \in enableOk[p]

\* C3 witness: one run marked a device it enabled, left unmarked a device whose
\* enable call failed and left unmarked a device found enabled.
C3_Witness ==
    /\ CurrentCall = "configure_testbed_cdp_protocol"
    /\ \E d \in Devices : d \in cdp_configured
    /\ \E d \in Devices \ cdp_configured :
          ApiCall("configure_cdp", d, FALSE, "-") \in Entries(apiLog[d])
    /\ \E d \in Devices \ cdp_configured :
          ApiCall("verify_cdp", d, TRUE, "True") \in Entries(apiLog[d])

\* C4: a disable call is issued only on a device in that protocol's configured
\* set, unconfigure on a device in neither set issues no call, and a device whose
\* protocol was enabled before the run never gets it disabled.
C4_UnconfigureOnlyConfigured ==
    /\ \A p \in Protocols : \A d \in Devices :
          CallsOf("unconfigure_" \o p, d) # {}
              => (d \in Configured(p) /\ d \notin initEnabled[p])
    /\ (CurrentCall = "unconfigure_neighbor_discovery_protocols"
        /\ prevArg \notin cdp_configured \cup lldp_configured)
          => apiLog = EmptyLog

\* C4 witness: unconfigure on a device the run enabled cdp on, and not lldp,
\* issued the cdp disable call alone.
C4_Witness ==
    /\ CurrentCall = "unconfigure_neighbor_discovery_protocols"
    /\ prevArg \in cdp_configured \ lldp_configured
    /\ KindsIn(apiLog[prevArg]) = {"unconfigure_cdp"}
    /\ prevArg \in initEnabled["lldp"]

\* device d was added to p's configured set by the configure_testbed run in
\* progress
AddedByThisRun(p, d) ==
    /\ d \in selection \ pending
    /\ ApiCall("configure_" \o p, d, TRUE, "-") \in Entries(apiLog[d])

\* C5 as claimed: the second of two configure_testbed runs in a row selects no
\* device and issues no call.
C5_SecondRunSelectsNothing ==
    \A p \in Protocols :
        (op = CfgTestbedName(p) /\ prevCall = CfgTestbedName(p))
            => (selection = {} /\ apiLog = EmptyLog)

\* C5 amended: the second of two configure_testbed runs in a row selects
\* exactly the connected, unvisited devices that the first run left out of the
\* configured set, and issues calls on selected devices only.
C5_SecondRunSkipsConfigured ==
    \A p \in Protocols :
        (op = CfgTestbedName(p) /\ prevCall = CfgTestbedName(p)) =>
            /\ selection = { d \in Devices :
                               /\ connected[d]
                               /\ d \notin visited_devices
                               /\ (d \notin Configured(p) \/ AddedByThisRun(p, d)) }
            /\ pending \cap Configured(p) = {}
            /\ \A d \in Devices \ selection : apiLog[d] = <<>>

\* C5 witness: the first run marked a device, and the second run selects
\* another device again, one the first run found enabled.
C5_Witness ==
    /\ op = "configure_testbed_cdp_protocol"
    /\ prevCall = "configure_testbed_cdp_protocol"
    /\ pending = selection
    /\ cdp_configured # {}
    /\ \E d \in selection : d \in initEnabled["cdp"]

\* the manager calls that choose the devices they act on
FanOutCalls == {"connect_all_devices", "configure_testbed_cdp_protocol",
                "configure_testbed_lldp_protocol"}

\* C2: no failure of a Device Operations call reaches the caller of a manager
\* method: every call completes normally.
C2_NoFailurePropagates == raised = FALSE

\* C6: a device whose os is not in supported_os gets no Device Operations call
\* from connect_all_devices, configure_testbed_*_protocol, get_neighbor_info
\* or get_interfaces_ipV4_address.
C6_UnsupportedNeverTouched ==
    CurrentCall \in FanOutCalls \cup {"get_neighbor_info",
                                      "get_interfaces_ipV4_address"} =>
        \A d \in Devices : os[d] \notin supported_os => apiLog[d] = <<>>

\* the part of the state that belongs to device d
DeviceState(d) ==
    <<connected[d], { p \in Protocols : d \in enabled[p] },
      [i \in 1..Len(interfaces[d]) |-> ipv4[<<d, interfaces[d][i]>>]]>>

\* C7 as claimed: no step of connect_all_devices, configure_testbed_*_protocol,
\* unconfigure_neighbor_discovery_protocols, get_neighbor_info or
\* get_interfaces_ipV4_address changes the state of a visited device or puts it
\* in a fan-out.
C7_VisitedNeverTouched ==
    [][ ~(ncalls' # ncalls /\ prevCall' \in {CfgDeviceName(p) : p \in Protocols}) =>
           \A d \in visited_devices :
               /\ DeviceState(d)' = DeviceState(d)
               /\ d \notin running'
               /\ op' \in FanOutCalls \ {"connect_all_devices"} => d \notin selection'
      ]_vars

\* C7 amended: connect_all_devices and configure_testbed_*_protocol never
\* submit a visited device, never select it and issue no call on it.
C7_VisitedNotInFanOut ==
    /\ CurrentCall \in FanOutCalls =>
          \A d \in visited_devices : apiLog[d] = <<>>
    /\ op = "connect_all_devices" =>
          \A d \in visited_devices : d \notin running \cup QueueSet
    /\ op \in FanOutCalls \ {"connect_all_devices"} =>
          \A d \in visited_devices : d \notin selection

\* C7 witness: the submit loop has passed a visited, disconnected device of
\* supported os without submitting it, while another device was attempted.
C7_Witness ==
    /\ op = "connect_all_devices"
    /\ idx > Len(DevOrder)
    /\ \E d \in visited_devices : ~connected[d] /\ os[d] \in supported_os
    /\ \E d \in Devices : apiLog[d] # <<>>

\* C10: get_interfaces_ipV4_address leaves every interface whose ipv4 is set
\* as it is and issues no address fetch for it.
C10_ResolvedAddressKept ==
    [][ (ncalls' # ncalls /\ prevCall' = "get_interfaces_ipV4_address") =>
           \A i \in Ifaces :
               ipv4[i] # None =>
                   /\ ipv4'[i] = ipv4[i]
                   /\ \A c \in Entries(apiLog'[i[1]]) : c.via # i[2] ]_vars

\* C10 witness: a second run on A fetched nothing, with the address the first
\* run resolved for Gi1 and the address the testbed gave for Gi2 in place.
C10_Witness ==
    /\ prevCall = "get_interfaces_ipV4_address"
    /\ prevArg = "A"
    /\ ncalls = 2
    /\ connected["A"]
    /\ apiLog["A"] = <<>>
    /\ ipv4[<<"A", "Gi1">>] = [ip |-> "10.0.0.2", prefixlen |-> 32]
    /\ ipv4[<<"A", "Gi2">>] = PresetIpv4[<<"A", "Gi2">>]

\* C11: get_neighbor_info on a device that is disconnected or of unsupported
\* os returns the empty placeholder under the device's name and fetches
\* nothing; the result is always keyed by the name of the device given.
C11_PlaceholderWhenIneligible ==
    CurrentCall = "get_neighbor_info" =>
        /\ result.name = prevArg
        /\ (os[prevArg] \notin supported_os \/ ~connected[prevArg]) =>
              /\ result = [name |-> prevArg, cdp |-> EmptyDict, lldp |-> EmptyDict]
              /\ apiLog = EmptyLog

\* C11 witness: get_neighbor_info returned for a connected device of
\* unsupported os.
C11_Witness ==
    /\ CurrentCall = "get_neighbor_info"
    /\ connected[prevArg]
    /\ os[prevArg] \notin supported_os
    /\ result.cdp = EmptyDict

\* C16: for a connected device of supported os both fetches are issued, and
\* each protocol's entry is the fetched table when its fetch returned and the
\* empty mapping when it failed.
C16_FetchesIndependent ==
    (CurrentCall = "get_neighbor_info" /\ connected[prevArg]
     /\ os[prevArg] \in supported_os) =>
        /\ KindsIn(apiLog[prevArg]) =
               {"get_cdp_neighbors_info", "get_lldp_neighbors_info"}
        /\ Len(apiLog[prevArg]) = 2
        /\ result.cdp =
               IF ApiCall("get_cdp_neighbors_info", prevArg, TRUE, "-")
                      \in Entries(apiLog[prevArg])
               THEN NeighborTable("cdp", prevArg) ELSE EmptyDict
        /\ result.lldp =
               IF ApiCall("get_lldp_neighbors_info", prevArg, TRUE, "-")
                      \in Entries(apiLog[prevArg])
               THEN NeighborTable("lldp", prevArg) ELSE EmptyDict

\* C16 witness: the cdp fetch failed and the lldp table was returned.
C16_Witness ==
    /\ CurrentCall = "get_neighbor_info"
    /\ ApiCall("get_cdp_neighbors_info", prevArg, FALSE, "-")
           \in Entries(apiLog[prevArg])
    /\ result.cdp = EmptyDict
    /\ result.lldp = NeighborTable("lldp", prevArg)

\* position of a named path among the device's connections
PathIndex(d, n) == CHOOSE i \in 1..Len(connections[d]) : connections[d][i].name = n

\* number of connect attempts of a log made via path n
CountVia(log, n) ==
    Cardinality({ i \in 1..Len(log) : IsConnect(log[i]) /\ log[i].via = n })

\* the attempts of the fallback enumeration: all of them but the preferred one
FallbackVias(d) ==
    LET v == ConnectVias(apiLog[d]) IN
    IF HasPreferredPath(d) /\ v # <<>> THEN Tail(v) ELSE v

\* the enumeration attempts paths in declared order, each at most once
FallbackInOrder(d) ==
    LET v == FallbackVias(d) IN
    \A i \in 1..Len(v) : \A j \in 1..Len(v) :
        i < j => PathIndex(d, v[i]) < PathIndex(d, v[j])

\* C12 as claimed: within one pass no path is attempted twice, the preferred
\* path included.
C12_NoPathRetried ==
    CurrentCall = "connect_all_devices" =>
        \A d \in Devices : \A n \in PathNames(d) : CountVia(apiLog[d], n) <= 1

\* C12 amended: the fallback enumeration attempts each path at most once, in
\* declared order; only the preferred path can be attempted a second time,
\* by the enumeration, after its preferred attempt failed.
C12_OnlyPreferredRetried ==
    CurrentCall = "connect_all_devices" =>
        \A d \in Devices :
            /\ FallbackInOrder(d)
            /\ \A n \in PathNames(d) :
                   CountVia(apiLog[d], n) <=
                       IF HasPreferredPath(d) /\ n = alias_dict[d] THEN 2 ELSE 1

\* C12 witness: A's preferred console path failed, and the enumeration tried
\* mgmt and then console again.
C12_Witness ==
    /\ CurrentCall = "connect_all_devices"
    /\ alias_dict["A"] = "console"
    /\ ConnectVias(apiLog["A"]) = <<"console", "mgmt", "console">>

\* C13: in one pass at most one attempt succeeds and it is the last call of
\* the pass, every failed attempt is followed at once by a destroy, the
\* enumeration goes in declared order, and the device ends connected exactly
\* when the pass ended with a successful attempt.
C13_FirstSuccessWins ==
    CurrentCall = "connect_all_devices" =>
        \A d \in Devices :
            LET log == apiLog[d] IN
            log # <<>> =>
                /\ \A i \in 1..Len(log) :
                       IsConnect(log[i]) =>
                           IF log[i].ok
                           THEN i = Len(log)
                           ELSE i < Len(log) /\ log[i + 1].kind = "destroy"
                /\ FallbackInOrder(d)
                /\ connected[d] <=> (IsConnect(log[Len(log)]) /\ log[Len(log)].ok)

\* C13 witness: A's preferred attempt failed, mgmt failed, and A is connected
\* by the third attempt.
C13_Witness ==
    /\ CurrentCall = "connect_all_devices"
    /\ HasPreferredPath("A")
    /\ Len(ConnectVias(apiLog["A"])) = 3
    /\ connected["A"]

\* C14: connect_all_devices returns only when no invocation is queued or
\* running and every device it selected has had its invocation, whatever
\* another invocation raised; with nothing selected no call is issued.
C14_ReturnsAfterAll ==
    (op = "idle" /\ prevCall = "connect_all_devices") =>
        LET sel == { d \in Devices : /\ d \notin connectedAtCall
                                     /\ os[d] \in supported_os
                                     /\ d \notin visited_devices } IN
        /\ running = {}
        /\ queue = <<>>
        /\ \A d \in sel : apiLog[d] # <<>>
        /\ sel = {} => apiLog = EmptyLog

\* C14 witness: the call returned after A's invocation raised out of destroy
\* and B's invocation made its attempt.
C14_Witness ==
    /\ op = "idle"
    /\ prevCall = "connect_all_devices"
    /\ Call("destroy", "A", "-", 0, FALSE) \in Entries(apiLog["A"])
    /\ apiLog["B"] # <<>>

\* C18: every connect attempt is issued with the manager's timeout.
C18_AttemptsUseTimeout ==
    CurrentCall = "connect_all_devices" =>
        \A d \in Devices : \A c \in Entries(apiLog[d]) :
            IsConnect(c) => c.timeout = timeout

\* protocol of a named path
PathProtocol(d, n) == connections[d][PathIndex(d, n)].protocol

\* C19: with ssh_only set no connect attempt goes through a path that is
\* not ssh.
C19_SshOnlyEveryAttempt ==
    (CurrentCall = "connect_all_devices" /\ ssh_only) =>
        \A d \in Devices : \A c \in Entries(apiLog[d]) :
            IsConnect(c) => PathProtocol(d, c.via) = "ssh"

\* C15: no step of any operation removes a name from cdp_configured or
\* lldp_configured; unconfigure_neighbor_discovery_protocols leaves both as
\* they were whether its disable calls succeed or raise.
C15_ConfiguredSetsOnlyGrow ==
    [][/\ cdp_configured \subseteq cdp_configured'
       /\ lldp_configured \subseteq lldp_configured'
       /\ (prevCall' = "unconfigure_neighbor_discovery_protocols" /\ op = "idle"
            /\ op' = "idle" /\ ncalls' = ncalls + 1)
              => UNCHANGED setVars]_vars

\* C15 witness: unconfigure ran on a configured device, its cdp disable call
\* succeeded, and the name is still in cdp_configured.
C15_Witness ==
    /\ CurrentCall = "unconfigure_neighbor_discovery_protocols"
    /\ ApiCall("unconfigure_cdp", prevArg, TRUE, "-") \in Entries(apiLog[prevArg])
    /\ prevArg \in cdp_configured
    /\ prevArg \notin enabled["cdp"]

\* C17: a manager constructed with config false issues no enable call and
\* adds no name to either configured set.
C17_NoEnableWithoutConfig ==
    ~config =>
        /\ \A d \in Devices : \A p \in Protocols : CallsOf("configure_" \o p, d) = {}
        /\ cdp_configured = {}
        /\ lldp_configured = {}

\* every credential content of the file
YamlCredValues ==
    UNION { { yaml[i].credentials[j].val : j \in 1..Len(yaml[i].credentials) } :
              i \in 1..Len(yaml) }

\* every proxy a connection of the file uses
YamlProxies ==
    UNION { { yaml[i].connections[j] : j \in 1..Len(yaml[i].connections) } :
              i \in 1..Len(yaml) } \ {NoProxy}

\* C20: get_credentials_and_proxies loses no credential, and its proxy list
\* holds each proxy used by a connection exactly once.
C20_NoCredentialLost ==
    CurrentCall = "get_credentials_and_proxies" =>
        /\ YamlCredValues \subseteq Values(credential_dict)
        /\ \A p \in YamlProxies :
               Cardinality({ i \in 1..Len(proxy_list) : proxy_list[i] = p }) = 1
        /\ \A i \in 1..Len(proxy_list) : proxy_list[i] \in YamlProxies

====
